---- MODULE Spec2Model ----
(***************************************************************************)
(* TestFlightNotifier (src/__init__.py): a cog that polls TestFlight pages *)
(* on a discord.ext.tasks Loop, compares each fetched status with the row  *)
(* of a SQLite table and sends a message when they differ.                 *)
(*                                                                         *)
(* Every coroutine runs on one asyncio event loop, so the code between two *)
(* awaits is atomic.  One action of this module is one such stretch: from  *)
(* the resumption of a coroutine to its next await (or its end).           *)
(***************************************************************************)
EXTENDS Naturals, Sequences, FiniteSets, Bags

\* The operator issues at most this many commands in one run of the process.
MaxCommands == 2

\* The app ids the settings and the commands draw from.
Ids == {"a", "b"}
NoApp == "-"

\* At most this many Loop objects have a task that is not done at one time: the
\* newest one and the stopped ones still finishing.
MaxLoops == 2

\* The slots the Loop objects live in; the slot of a Loop whose task is done is
\* free for the next Loop.
Loops == 1 .. MaxLoops

\* In the runs where the Loop sleeps throughout, the operator issues at most
\* this many add and remove commands.
MaxOperatorCommands == 3

\* A command argument is a sequence of tokens: "/" or a piece of text without a
\* "/" (adjacent pieces run together).  A URL argument is "https://" followed
\* by at most this many tokens.
MaxUrlLen == 5

Host == "testflight.apple.com"
Schemes == {"https:", "http:"}
Tokens == {"/", Host, "join", "a", "x"}

VARIABLES
    db,            \* state.db: [exists: is there a table "state", rows: app_id -> is_full (0/1)]
    fresh_start,   \* self.fresh_start
    loop,          \* self.loop: the index of the newest Loop
    watched_apps,  \* self.settings.watched_apps.value (the live list object)
    send_errors,   \* self.settings.send_errors.value
    task,          \* the Loop objects and the loop_callback frame each is running
    calls,         \* the bag of command invocations suspended at their fetch
    ncmd,          \* number of commands issued so far
    ev,            \* history: the store_app_info call of the last step
    fetched        \* history: the latest is_full fetched for each id (fresh start)

vars == <<db, fresh_start, loop, watched_apps, send_errors, task, calls, ncmd, ev, fetched>>

(***************************************************************************)
(* Optional[bool] is a sequence: <<>> is None, <<b>> is the boolean b.     *)
(***************************************************************************)
None == <<>>
Some(b) == <<b>>

(***************************************************************************)
(* The SQLite table.                                                       *)
(***************************************************************************)
Tables == UNION {[S -> {0, 1}] : S \in SUBSET Ids}
NoRows == [x \in {} |-> 0]

\* A variant of create_cache that returns `existed_before is not None`.
create_cache_inverted(d) ==
    [db  |-> [exists |-> TRUE, rows |-> IF d.exists THEN d.rows ELSE NoRows],
     ret |-> d.exists]

\* create_cache: CREATE TABLE IF NOT EXISTS; returns whether the table was missing.
create_cache(d) ==
    [db  |-> [exists |-> TRUE, rows |-> IF d.exists THEN d.rows ELSE NoRows],
     ret |-> ~d.exists]

\* A variant of store_app_info that keeps an existing row (INSERT OR IGNORE).
store_app_info_ignore(d, id, full) ==
    IF id \in DOMAIN d.rows THEN d
    ELSE [d EXCEPT !.rows = [x \in (DOMAIN d.rows) \cup {id} |->
                                IF x = id THEN (IF full THEN 1 ELSE 0) ELSE d.rows[x]]]

\* store_app_info: INSERT OR REPLACE INTO state (app_id, is_full); the bool is
\* stored as the integer 0 or 1.
store_app_info(d, id, full) ==
    [d EXCEPT !.rows = [x \in (DOMAIN d.rows) \cup {id} |->
                           IF x = id THEN (IF full THEN 1 ELSE 0) ELSE d.rows[x]]]

\* was_full: bool(row[0]) of the row of app_id, None without a row.
was_full(d, id) ==
    IF id \in DOMAIN d.rows THEN Some(d.rows[id] # 0) ELSE None

(***************************************************************************)
(* fetch_app_info.  The remote side decides the outcome of each request.   *)
(***************************************************************************)
FetchOutcomes == {"full", "open", "non200", "transport", "parse"}

\* What the call gives its caller: a TestFlightApp ("info"), None ("none"),
\* an exception of the Loop's retry set (aiohttp.ClientError, OSError,
\* asyncio.TimeoutError: "raise_retry") or any other exception ("raise").
fetch_app_info(outcome) ==
    CASE outcome = "full"      -> [kind |-> "info", is_full |-> Some(TRUE)]
      [] outcome = "open"      -> [kind |-> "info", is_full |-> Some(FALSE)]
      [] outcome = "non200"    -> [kind |-> "none", is_full |-> None]
      [] outcome = "transport" -> [kind |-> "raise_retry", is_full |-> None]
      [] outcome = "parse"     -> [kind |-> "raise", is_full |-> None]

(***************************************************************************)
(* send_info / send_error: get_channel or fetch_channel, then channel.send.*)
(* fetch_channel and send raise discord.HTTPException (NotFound, Forbidden)*)
(* or a connection error; neither function catches anything.               *)
(***************************************************************************)
SendOutcomes == {"sent", "http_error", "conn_error"}

send_result(outcome) ==
    CASE outcome = "sent"       -> "return"
      [] outcome = "http_error" -> "raise"
      [] outcome = "conn_error" -> "raise_retry"

\* A variant of line 72 that leaves the comparison with the stored value out.
should_notify_uncompared(fresh, full, was) == ~fresh

\* loop_callback line 72: the condition under which send_info is awaited.
should_notify(fresh, full, was) == ~fresh /\ (Some(full) # was)

(***************************************************************************)
(* discord.ext.tasks.Loop, as loop_callback is run by it.                  *)
(*   st: "none" (not created), "scheduled" (started, first iteration not   *)
(*   yet begun), "fetch" / "send_info" / "send_error" (loop_callback is    *)
(*   suspended at that await), "sleeping" (between iterations), "backoff"  *)
(*   (sleeping after an exception of the retry set), "stopped", "failed".  *)
(***************************************************************************)
InCycle == {"fetch", "send_info", "send_error"}
Finished == {"none", "stopped", "failed"}

IdleTask == [st |-> "none", stop |-> FALSE, it |-> 0, app_id |-> NoApp, is_full |-> None]

\* A variant of Loop.stop() that ends the task at once, as Loop.cancel() does.
loop_cancel(t) == IF t.st \in Finished THEN t ELSE [IdleTask EXCEPT !.st = "stopped"]

\* Loop.stop(): a task that is not done gets _stop_next_iteration.
loop_stop(t) == IF t.st \in Finished THEN t ELSE [t EXCEPT !.stop = TRUE]

\* Loop.start(): the task is created; its first iteration runs on a later turn.
loop_start == [IdleTask EXCEPT !.st = "scheduled"]

\* loop_callback returned: the Loop leaves if stop() was called, else sleeps
\* until the next iteration.
after_cycle(t) ==
    IF t.stop THEN [IdleTask EXCEPT !.st = "stopped"]
    ELSE [IdleTask EXCEPT !.st = "sleeping"]

\* loop_callback raised: an exception of the retry set is followed by a backoff
\* sleep and another call of loop_callback; any other ends the task.
after_raise(t, kind) ==
    IF kind = "raise_retry" THEN [t EXCEPT !.st = "backoff", !.it = 0, !.app_id = NoApp, !.is_full = None]
    ELSE [IdleTask EXCEPT !.st = "failed"]

\* for app_id in watched_apps: the list iterator takes the element at its index
\* of the live list, or ends the loop (and so loop_callback).
next_item(t, watched) ==
    IF t.it < Len(watched)
    THEN [t EXCEPT !.st = "fetch", !.it = t.it + 1, !.app_id = watched[t.it + 1], !.is_full = None]
    ELSE after_cycle(t)

(***************************************************************************)
(* The frames of the commands that await a fetch: add_testflight at line   *)
(* 169 (it = 0) and list_testflight at line 202 (it = the iterator's index *)
(* of the element being fetched).                                          *)
(***************************************************************************)
Frame(cmd, it, id) == [cmd |-> cmd, it |-> it, app_id |-> id]
suspend(c, f) == c (+) SetToBag({f})
resume(c, f) == c (-) SetToBag({f})

\* list.remove(x): the first occurrence is deleted.
RECURSIVE list_remove(_, _)
list_remove(l, x) ==
    IF l = <<>> THEN <<>>
    ELSE IF Head(l) = x THEN Tail(l)
    ELSE <<Head(l)>> \o list_remove(Tail(l), x)

in_list(l, x) == \E i \in 1 .. Len(l) : l[i] = x

(***************************************************************************)
(* The argument of add_testflight and remove_testflight (lines 159-164 and *)
(* 180-185): a URL is cut at its "/" and the fifth part is the id.         *)
(***************************************************************************)
\* The string a sequence of tokens spells.
RECURSIVE Text(_)
Text(s) == IF s = <<>> THEN "" ELSE Head(s) \o Text(Tail(s))

\* app_id.startswith(("https://", "http://"))
startswith_scheme(s) ==
    Len(s) >= 3 /\ s[1] \in Schemes /\ s[2] = "/" /\ s[3] = "/"

\* str.split("/", maxsplit): the parts between the first maxsplit "/", the
\* last part being all that is left.
RECURSIVE split(_, _)
split(s, maxsplit) ==
    IF maxsplit = 0 \/ ~in_list(s, "/") THEN <<s>>
    ELSE LET i == CHOOSE j \in 1 .. Len(s) :
                      s[j] = "/" /\ \A h \in 1 .. (j - 1) : s[h] # "/"
         IN <<SubSeq(s, 1, i - 1)>> \o split(SubSeq(s, i + 1, Len(s)), maxsplit - 1)

\* Lines 159-164: what the command makes of its argument: an id, the answer
\* "Invalid URL", or the IndexError of parts[4] on a list of four parts.
\* (parts[2], parts[3], parts[4] of the code are parts[3], parts[4], parts[5].)
parse_app_id(arg) ==
    IF ~startswith_scheme(arg) THEN [kind |-> "id", id |-> Text(arg)]
    ELSE LET parts == split(arg, 4) IN
         IF Len(parts) < 4 \/ Text(parts[3]) # Host \/ Text(parts[4]) # "join"
         THEN [kind |-> "Invalid URL", id |-> NoApp]
         ELSE IF Len(parts) < 5 THEN [kind |-> "IndexError", id |-> NoApp]
         ELSE [kind |-> "id", id |-> Text(parts[5])]

\* The arguments the operator gives: plain ids, and URLs.
RECURSIVE SeqsUpTo(_, _)
SeqsUpTo(S, n) ==
    IF n = 0 THEN {<<>>}
    ELSE LET shorter == SeqsUpTo(S, n - 1) IN
         shorter \cup {Append(q, x) : q \in shorter, x \in S}

PlainArgs == {<<id>> : id \in Ids}
Urls == {<<"https:", "/", "/">> \o r : r \in SeqsUpTo(Tokens, MaxUrlLen)}

(***************************************************************************)
(* The history variables.                                                  *)
(*   ev: when the last step was loop_callback going from its fetch to      *)
(*   store_app_info without awaiting send_info (lines 67, 72, 74), the id  *)
(*   and what was_full gave before the call; NoWrite after any other step. *)
(*   fetched: in a run with fresh_start, the is_full of the latest         *)
(*   TestFlightApp that fetch_app_info returned for each id, to any caller.*)
(***************************************************************************)
\* A variant of lines 68-71 that does not read the send_errors setting.
on_fetch_none_unconditional(t, errors, watched) == [t EXCEPT !.st = "send_error"]

\* loop_callback lines 68-71: the fetch gave None.
on_fetch_none(t, errors, watched) ==
    IF errors THEN [t EXCEPT !.st = "send_error"] ELSE next_item(t, watched)

Write(id, old) == [app_id |-> id, old |-> old]
NoWrite == Write(NoApp, None)

note_fetched(f, fresh, id, full) == IF fresh THEN [f EXCEPT ![id] = full] ELSE f

(***************************************************************************)
(* __init__: the database is opened, create_cache decides fresh_start, and *)
(* on_check_interval_changed creates and starts the first Loop.  The table *)
(* and the settings are what an earlier run (or none) left behind.         *)
(***************************************************************************)
\* The watched list the settings hold at start: empty, one id or two (the ids
\* are interchangeable, so one order stands for both).
WatchedInit == {<<>>, <<"a">>, <<"a", "b">>}

DbBefore == {[exists |-> FALSE, rows |-> NoRows]} \cup {[exists |-> TRUE, rows |-> r] : r \in Tables}

Init ==
    \E d \in DbBefore :
        /\ db = create_cache(d).db
        /\ fresh_start = create_cache(d).ret
        /\ loop = 1
        /\ watched_apps \in WatchedInit
        /\ send_errors \in BOOLEAN
        /\ task = [k \in Loops |-> IF k = 1 THEN loop_start ELSE IdleTask]
        /\ calls = EmptyBag
        /\ ncmd = 0
        /\ ev = NoWrite
        /\ fetched = [x \in Ids |-> None]

(***************************************************************************)
(* The Loop begins an iteration: the first one, the one after the sleep,   *)
(* or the one after a backoff.  _stop_next_iteration is looked at before   *)
(* the first iteration and after each call that returned, nowhere else.    *)
(***************************************************************************)
Tick(k) ==
    /\ task[k].st \in {"scheduled", "sleeping", "backoff"}
    /\ task' = [task EXCEPT ![k] =
                   IF task[k].st = "scheduled" /\ task[k].stop
                   THEN [IdleTask EXCEPT !.st = "stopped"]
                   ELSE next_item([task[k] EXCEPT !.it = 0], watched_apps)]
    /\ ev' = NoWrite
    /\ UNCHANGED <<db, fresh_start, loop, watched_apps, send_errors, calls, ncmd, fetched>>

(***************************************************************************)
(* loop_callback resumes from `await self.fetch_app_info(app_id)` and runs *)
(* to its next await (lines 67-74 and, for the next element, 66-67).       *)
(***************************************************************************)
FetchReturn(k, outcome) ==
    LET t   == task[k]
        r   == fetch_app_info(outcome)
        old == was_full(db, t.app_id)
    IN
    /\ t.st = "fetch"
    /\ CASE r.kind = "none" ->
              /\ task' = [task EXCEPT ![k] = on_fetch_none(t, send_errors, watched_apps)]
              /\ ev' = NoWrite
              /\ UNCHANGED <<db, fetched>>
         [] r.kind = "info" ->
              /\ fetched' = note_fetched(fetched, fresh_start, t.app_id, r.is_full)
              /\ IF should_notify(fresh_start, r.is_full[1], old)
                 THEN /\ task' = [task EXCEPT ![k] = [t EXCEPT !.st = "send_info", !.is_full = r.is_full]]
                      /\ ev' = NoWrite
                      /\ UNCHANGED db
                 ELSE /\ db' = store_app_info(db, t.app_id, r.is_full[1])
                      /\ task' = [task EXCEPT ![k] = next_item(t, watched_apps)]
                      /\ ev' = Write(t.app_id, old)
         [] OTHER ->
              /\ task' = [task EXCEPT ![k] = after_raise(t, r.kind)]
              /\ ev' = NoWrite
              /\ UNCHANGED <<db, fetched>>
    /\ UNCHANGED <<fresh_start, loop, watched_apps, send_errors, calls, ncmd>>

(***************************************************************************)
(* loop_callback resumes from `await self.send_info(app_info)` (line 73).  *)
(***************************************************************************)
SendInfoReturn(k, outcome) ==
    LET t == task[k] IN
    /\ t.st = "send_info"
    /\ IF send_result(outcome) = "return"
       THEN /\ db' = store_app_info(db, t.app_id, t.is_full[1])
            /\ task' = [task EXCEPT ![k] = next_item(t, watched_apps)]
            /\ ev' = NoWrite
       ELSE /\ task' = [task EXCEPT ![k] = after_raise(t, send_result(outcome))]
            /\ ev' = NoWrite
            /\ UNCHANGED db
    /\ UNCHANGED <<fresh_start, loop, watched_apps, send_errors, calls, ncmd, fetched>>

(***************************************************************************)
(* loop_callback resumes from `await self.send_error(app_id)` (line 70).   *)
(***************************************************************************)
SendErrorReturn(k, outcome) ==
    LET t == task[k] IN
    /\ t.st = "send_error"
    /\ task' = [task EXCEPT ![k] =
                   IF send_result(outcome) = "return" THEN next_item(t, watched_apps)
                   ELSE after_raise(t, send_result(outcome))]
    /\ ev' = NoWrite
    /\ UNCHANGED <<db, fresh_start, loop, watched_apps, send_errors, calls, ncmd, fetched>>

(***************************************************************************)
(* set_testflight_check_interval: assigning the setting calls its observer *)
(* on_check_interval_changed, which stops self.loop and starts a new Loop. *)
(***************************************************************************)
FreeSlots == {k \in Loops : k # loop /\ task[k].st \in Finished}

on_check_interval_changed ==
    /\ FreeSlots # {}
    /\ LET k == CHOOSE f \in FreeSlots : \A g \in FreeSlots : f <= g IN
        /\ loop' = k
        /\ task' = [task EXCEPT ![loop] = loop_stop(task[loop]), ![k] = loop_start]
    /\ ncmd' = ncmd + 1
    /\ ev' = NoWrite
    /\ UNCHANGED <<db, fresh_start, watched_apps, send_errors, calls, fetched>>

(***************************************************************************)
(* add_testflight, from its argument (lines 159-169) to the answer that    *)
(* ends it or to the await of the fetch.                                   *)
(***************************************************************************)
add_testflight(arg) ==
    LET p == parse_app_id(arg) IN
    /\ ncmd' = ncmd + 1
    /\ calls' = IF p.kind = "id" /\ ~in_list(watched_apps, p.id)
                THEN suspend(calls, Frame("add", 0, p.id))
                ELSE calls
    /\ ev' = NoWrite
    /\ UNCHANGED <<db, fresh_start, loop, watched_apps, send_errors, task, fetched>>

\* A variant of lines 169-175 without the test of line 170: the id is appended
\* whatever the fetch gave.
AddFetchReturn_unvalidated(id, outcome) ==
    LET r == fetch_app_info(outcome) IN
    /\ BagIn(Frame("add", 0, id), calls)
    /\ calls' = resume(calls, Frame("add", 0, id))
    /\ watched_apps' = Append(watched_apps, id)
    /\ IF r.kind = "info"
       THEN /\ db' = store_app_info(db, id, r.is_full[1])
            /\ fetched' = note_fetched(fetched, fresh_start, id, r.is_full)
       ELSE UNCHANGED <<db, fetched>>
    /\ ev' = NoWrite
    /\ UNCHANGED <<fresh_start, loop, send_errors, task, ncmd>>

\* add_testflight resumes from its fetch (lines 169-175).
AddFetchReturn(id, outcome) ==
    LET r == fetch_app_info(outcome) IN
    /\ BagIn(Frame("add", 0, id), calls)
    /\ calls' = resume(calls, Frame("add", 0, id))
    /\ IF r.kind = "info"
       THEN /\ db' = store_app_info(db, id, r.is_full[1])
            /\ watched_apps' = Append(watched_apps, id)
            /\ fetched' = note_fetched(fetched, fresh_start, id, r.is_full)
            /\ ev' = NoWrite
       ELSE /\ ev' = NoWrite
            /\ UNCHANGED <<db, watched_apps, fetched>>
    /\ UNCHANGED <<fresh_start, loop, send_errors, task, ncmd>>

(***************************************************************************)
(* remove_testflight (lines 180-191).                                      *)
(***************************************************************************)
remove_testflight(arg) ==
    LET p == parse_app_id(arg) IN
    /\ ncmd' = ncmd + 1
    /\ watched_apps' = IF p.kind = "id" /\ in_list(watched_apps, p.id)
                       THEN list_remove(watched_apps, p.id)
                       ELSE watched_apps
    /\ ev' = NoWrite
    /\ UNCHANGED <<db, fresh_start, loop, send_errors, task, calls, fetched>>

(***************************************************************************)
(* list_testflight: `for app_id in setting.value` over the live list, one  *)
(* fetch and one store_app_info per element (lines 195-206).               *)
(***************************************************************************)
list_next(c, it, watched) ==
    IF it < Len(watched)
    THEN suspend(c, Frame("list", it + 1, watched[it + 1]))
    ELSE c

list_testflight ==
    /\ ncmd' = ncmd + 1
    /\ calls' = list_next(calls, 0, watched_apps)
    /\ ev' = NoWrite
    /\ UNCHANGED <<db, fresh_start, loop, watched_apps, send_errors, task, fetched>>

\* list_testflight resumes from its fetch (lines 202-206, then 201-202).
ListFetchReturn(f, outcome) ==
    LET r    == fetch_app_info(outcome)
        left == resume(calls, f)
    IN
    /\ f.cmd = "list"
    /\ BagIn(f, calls)
    /\ CASE r.kind = "info" ->
              /\ db' = store_app_info(db, f.app_id, r.is_full[1])
              /\ fetched' = note_fetched(fetched, fresh_start, f.app_id, r.is_full)
              /\ calls' = list_next(left, f.it, watched_apps)
              /\ ev' = NoWrite
         [] r.kind = "none" ->
              /\ calls' = list_next(left, f.it, watched_apps)
              /\ ev' = NoWrite
              /\ UNCHANGED <<db, fetched>>
         [] OTHER ->
              /\ calls' = left
              /\ ev' = NoWrite
              /\ UNCHANGED <<db, fetched>>
    /\ UNCHANGED <<fresh_start, loop, watched_apps, send_errors, task, ncmd>>

\* The operator gives a command only while fewer than max have been given.
MayCommand(max) == ncmd < max

Next ==
    \/ \E k \in Loops : Tick(k)
    \/ \E k \in Loops, o \in FetchOutcomes : FetchReturn(k, o)
    \/ \E k \in Loops, o \in SendOutcomes : SendInfoReturn(k, o)
    \/ \E k \in Loops, o \in SendOutcomes : SendErrorReturn(k, o)
    \/ MayCommand(MaxCommands) /\ on_check_interval_changed
    \/ \E arg \in PlainArgs : MayCommand(MaxCommands) /\ add_testflight(arg)
    \/ \E id \in Ids, o \in FetchOutcomes : AddFetchReturn(id, o)
    \/ \E arg \in PlainArgs : MayCommand(MaxCommands) /\ remove_testflight(arg)
    \/ MayCommand(MaxCommands) /\ list_testflight
    \/ \E f \in BagToSet(calls), o \in FetchOutcomes : ListFetchReturn(f, o)

Spec == Init /\ [][Next]_vars

(***************************************************************************)
(* The event loop goes on running: the sleep of a Loop ends, and an HTTP   *)
(* request or a Discord call that a coroutine awaits returns or raises.    *)
(* The operator is under no obligation to give a command.                  *)
(***************************************************************************)
Fairness ==
    \A k \in Loops :
        /\ WF_vars(Tick(k))
        /\ WF_vars(\E o \in FetchOutcomes : FetchReturn(k, o))
        /\ WF_vars(\E o \in SendOutcomes : SendInfoReturn(k, o))
        /\ WF_vars(\E o \in SendOutcomes : SendErrorReturn(k, o))

LiveSpec == Spec /\ Fairness

(***************************************************************************)
(* The operator's add and remove commands while the Loop sleeps between    *)
(* two cycles (hours, by the setting).  The runs start where a first cycle *)
(* in which no fetch gave a TestFlightApp has left the process: the table  *)
(* and the settings as __init__ found them, the Loop asleep.               *)
(***************************************************************************)
CommandInit ==
    \E d \in DbBefore :
        /\ db = create_cache(d).db
        /\ fresh_start = create_cache(d).ret
        /\ loop = 1
        /\ watched_apps \in WatchedInit
        /\ send_errors \in BOOLEAN
        /\ task = [k \in Loops |-> IF k = 1 THEN after_cycle(loop_start) ELSE IdleTask]
        /\ calls = EmptyBag
        /\ ncmd = 0
        /\ ev = NoWrite
        /\ fetched = [x \in Ids |-> None]

\* The ids of the add_testflight invocations suspended at their fetch.
PendingAdds == {f.app_id : f \in {g \in BagToSet(calls) : g.cmd = "add"}}

\* TestFlight has a page only for the ids of Ids.
RemoteOutcomes(id) == IF id \in Ids THEN FetchOutcomes ELSE {"non200", "transport"}

Commands(args, max) ==
    \/ \E arg \in args : MayCommand(max) /\ add_testflight(arg)
    \/ \E id \in PendingAdds : \E o \in RemoteOutcomes(id) : AddFetchReturn(id, o)
    \/ \E arg \in args : MayCommand(max) /\ remove_testflight(arg)

\* Commands with plain ids as arguments.
CommandSpec == CommandInit /\ [][Commands(PlainArgs, MaxOperatorCommands)]_vars

\* One command with a URL as its argument.
UrlSpec == CommandInit /\ [][Commands(Urls, 1)]_vars

(***************************************************************************)
(* What a step is, read off a pair of states.                              *)
(***************************************************************************)
\* The Loop in slot k calls loop_callback in this step.
BeginsCycle(k) == Tick(k) /\ ~(task[k].st = "scheduled" /\ task[k].stop)

\* loop_callback of the Loop in slot k resumes from its await in this step
\* (every resumption changes the state or the iterator of the frame).
Resumes(k) ==
    /\ task[k].st \in InCycle
    /\ <<task'[k].st, task'[k].it>> # <<task[k].st, task[k].it>>

\* The call of loop_callback by the Loop in slot k is left by an exception.
Aborted(k) == task[k].st \in InCycle /\ task'[k].st \in {"backoff", "failed"}

----------------------------------------------------------------------------
\* C1 (single-flight): in every reachable state at most one execution of
\* loop_callback is in progress, also when the interval is changed while a
\* cycle of the old Loop is suspended at a fetch or a send.
C1_SingleFlight == Cardinality({k \in Loops : task[k].st \in InCycle}) <= 1

\* C2: once on_check_interval_changed has made a new Loop, every cycle that
\* begins is begun by that newest Loop; the old Loop starts no other cycle.
C2_OnlyNewestLoopStartsCycles ==
    [][\A k \in Loops : BeginsCycle(k) => k = loop]_vars

\* C3: a cycle awaits send_info for an id only when the store has a row for
\* that id and the row's boolean differs from the fetched is_full; without a
\* row (was_full gives None) it sends nothing.
C3_NotifyOnlyOnStoredChange ==
    [][\A k \in Loops :
          (Resumes(k) /\ task[k].st = "fetch" /\ task'[k].st = "send_info")
              => \A o \in FetchOutcomes :
                    FetchReturn(k, o)
                        => /\ was_full(db, task[k].app_id) # None
                           /\ was_full(db, task[k].app_id) # fetch_app_info(o).is_full]_vars

\* C4: with fresh_start false, a fetched is_full that differs from the stored
\* one is notified exactly once.  Its second half, stated here: while the
\* store still holds the old value, no two cycles have a send_info in progress
\* for the same id with the same fetched is_full (a second notification of one
\* transition by an overlapping cycle that saw the same remote value).
C4_NoSecondNotification ==
    \A k1 \in Loops, k2 \in Loops :
        (/\ k1 # k2 /\ ~fresh_start
         /\ task[k1].st = "send_info" /\ task[k2].st = "send_info"
         /\ was_full(db, task[k1].app_id) # None
         /\ was_full(db, task[k1].app_id) # task[k1].is_full)
            => ~(task[k1].app_id = task[k2].app_id /\ task[k1].is_full = task[k2].is_full)

\* C5: once a polling cycle has executed (a Loop sleeps until its next
\* iteration only after loop_callback returned), fresh_start is false.
C5_FreshStartCleared ==
    (\E k \in Loops : task[k].st = "sleeping") => ~fresh_start

\* C6: in a run that started without the table (fresh_start), no cycle awaits
\* send_info whatever was fetched, and the store holds the fetched is_full of
\* every id whose fetch succeeded: at every moment, so when the first cycle
\* ends too (the value is the latest one fetched for the id).
C6_FreshStartPopulates ==
    fresh_start =>
        /\ \A k \in Loops : task[k].st # "send_info"
        /\ \A id \in Ids : fetched[id] # None => was_full(db, id) = fetched[id]

\* A fresh start whose first cycle has ended (the Loop sleeps) after fetching
\* both watched ids, no command having been given.
C6_Witness ==
    /\ fresh_start /\ ncmd = 0
    /\ task[loop].st = "sleeping"
    /\ watched_apps = <<"a", "b">>
    /\ fetched["a"] = Some(TRUE) /\ fetched["b"] = Some(FALSE)
    /\ was_full(db, "a") = Some(TRUE) /\ was_full(db, "b") = Some(FALSE)

\* C7: an exception of send_info or send_error does not leave loop_callback:
\* the fetched status is still stored and the cycle goes on to the next id.
C7_DeliveryFailureContained ==
    [][\A k \in Loops :
          (Resumes(k) /\ task[k].st \in {"send_info", "send_error"})
              => \A o \in SendOutcomes :
                    /\ (send_result(o) # "return" /\ SendInfoReturn(k, o))
                          => /\ ~Aborted(k)
                             /\ was_full(db', task[k].app_id) = task[k].is_full
                    /\ (send_result(o) # "return" /\ SendErrorReturn(k, o))
                          => ~Aborted(k)]_vars

\* C8: every failure of the fetch of one id (non-200, transport error, page
\* without the expected elements) is a failed fetch of that id only; the ids
\* after it in the list are still processed in the same cycle.
C8_FetchFailureIsolated ==
    [][\A k \in Loops :
          (Resumes(k) /\ task[k].st = "fetch")
              => \A o \in FetchOutcomes :
                    (fetch_app_info(o).kind # "info" /\ FetchReturn(k, o))
                        => ~Aborted(k)]_vars

\* C9: when the fetch of an id gives a non-success status, the cycle leaves
\* the store as it is, awaits no send_info, and awaits send_error if and only
\* if send_errors is set.
C9_FailedFetch ==
    [][\A k \in Loops :
          (Resumes(k) /\ task[k].st = "fetch")
              => \A o \in FetchOutcomes :
                    (fetch_app_info(o).kind = "none" /\ FetchReturn(k, o))
                        => /\ db' = db
                           /\ task'[k].st # "send_info"
                           /\ (task'[k].st = "send_error") <=> send_errors]_vars

\* A cycle awaiting send_error for an id that has a row in the store.
C9_Witness ==
    \E k \in Loops :
        /\ task[k].st = "send_error"
        /\ send_errors
        /\ was_full(db, task[k].app_id) # None

\* C10: when a fetch in a cycle gives the is_full the store already holds,
\* no send_info is awaited and store_app_info is still called with that value,
\* which leaves the rows as they were.
C10_SameValueStored ==
    [][\A k \in Loops :
          (Resumes(k) /\ task[k].st = "fetch")
              => \A o \in FetchOutcomes :
                    (/\ fetch_app_info(o).kind = "info"
                     /\ was_full(db, task[k].app_id) = fetch_app_info(o).is_full
                     /\ FetchReturn(k, o))
                        => /\ task'[k].st # "send_info"
                           /\ ev' = Write(task[k].app_id, fetch_app_info(o).is_full)
                           /\ was_full(db', task[k].app_id) = fetch_app_info(o).is_full
                           /\ db'.rows = db.rows]_vars

\* The last step was such a call, in a run that did not start fresh.
C10_Witness ==
    /\ ~fresh_start
    /\ ev # NoWrite
    /\ ev.old # None
    /\ ev.old = was_full(db, ev.app_id)

\* The elements the list iterator of a loop_callback frame has still to take
\* from the list w (line 66: the iterator holds an index into the live list).
Remaining(t, w) == IF t.it < Len(w) THEN SubSeq(w, t.it + 1, Len(w)) ELSE <<>>

\* C11: a cycle processes the watched list as it was when the cycle started.
\* Stated of one step: when a command changes the watched list while a cycle
\* is suspended at a fetch or a send, every id the cycle had still to fetch,
\* and that is still watched, is still to be fetched by it (no id of the
\* snapshot is skipped).
C11_SnapshotIteration ==
    [][\A k \in Loops :
          (/\ task[k].st \in InCycle
           /\ task'[k] = task[k]
           /\ watched_apps' # watched_apps)
              => \A id \in Ids :
                    (/\ in_list(Remaining(task[k], watched_apps), id)
                     /\ in_list(watched_apps', id))
                        => in_list(Remaining(task[k], watched_apps'), id)]_vars

\* C12: no id occurs more than once in the watched list, also after add
\* commands for the same id that overlap at the validation fetch.
C12_NoDuplicates ==
    \A i \in 1 .. Len(watched_apps), j \in 1 .. Len(watched_apps) :
        watched_apps[i] = watched_apps[j] => i = j

\* A URL of exactly the form scheme://testflight.apple.com/join/<id>, and its
\* <id>: what is left after the fourth "/", not empty and without a "/".
WellFormed(u) ==
    /\ Len(u) >= 8
    /\ startswith_scheme(u)
    /\ u[4] = Host /\ u[5] = "/" /\ u[6] = "join" /\ u[7] = "/"
    /\ ~in_list(SubSeq(u, 8, Len(u)), "/")

IdSegment(u) == SubSeq(u, 8, Len(u))

\* C13: an add or remove command whose argument starts with http:// or
\* https:// takes the id out of a URL of exactly the form
\* scheme://testflight.apple.com/join/<id>; for every other shape (wrong host,
\* wrong path segment, missing id segment) it answers "Invalid URL", raises
\* nothing, and leaves the watched list and the store as they are.
C13_UrlArgument ==
    [][\A u \in Urls :
          (add_testflight(u) \/ remove_testflight(u))
              => IF WellFormed(u)
                 THEN parse_app_id(u) = [kind |-> "id", id |-> Text(IdSegment(u))]
                 ELSE /\ parse_app_id(u).kind = "Invalid URL"
                      /\ watched_apps' = watched_apps
                      /\ db' = db
                      /\ calls' = calls]_vars

\* C14: the commands never write the store: every step that changes a row of
\* the table is a step of loop_callback (a cycle resuming from an await).
C14_StoreWrittenByCycleOnly ==
    [][db' # db => \E k \in Loops : Resumes(k)]_vars

\* C15: changing the interval while a cycle is in progress does not interrupt
\* the cycle.  The step of on_check_interval_changed leaves the frame of the
\* cycle, the watched list and the store as they are; and a cycle of a Loop
\* that was stopped goes on as any other: it ends ("stopped") only from its
\* last element, with the status fetched for it stored, and while elements are
\* left a step that stores a status takes the next element.
C15_ReconfigurationKeepsCycle ==
    [][\A k \in Loops :
          /\ (loop' # loop /\ task[k].st \in InCycle)
                => /\ task'[k] = [task[k] EXCEPT !.stop = task'[k].stop]
                   /\ watched_apps' = watched_apps
                   /\ db' = db
          /\ (task[k].stop /\ Resumes(k) /\ ~Aborted(k))
                => /\ (task'[k].st = "stopped")
                          <=> (task'[k].st \notin InCycle /\ task[k].it >= Len(watched_apps))
                   /\ (task[k].st = "send_info")
                          => was_full(db', task[k].app_id) = task[k].is_full
                   /\ (task[k].st = "fetch" /\ task'[k].st # "send_info")
                          => \A o \in {"full", "open"} :
                                FetchReturn(k, o)
                                    => was_full(db', task[k].app_id) = fetch_app_info(o).is_full
                   /\ (task[k].it < Len(watched_apps) /\ task'[k].st = "fetch")
                          => /\ task'[k].it = task[k].it + 1
                             /\ task'[k].app_id = watched_apps[task'[k].it]]_vars

\* A Loop that was stopped in its cycle, and replaced, has since stored the
\* status of the first element and is fetching the second.
C15_Witness ==
    \E k \in Loops :
        /\ k # loop
        /\ task[k].stop
        /\ task[k].st = "fetch"
        /\ task[k].it = 2
        /\ task[loop].st = "scheduled"
        /\ ev.app_id = watched_apps[1]

C17_RemoveLeavesStore ==
    [][\A arg \in PlainArgs :
          remove_testflight(arg)
              => /\ db' = db
                 /\ IF in_list(watched_apps, parse_app_id(arg).id)
                    THEN ~in_list(watched_apps', parse_app_id(arg).id)
                    ELSE watched_apps' = watched_apps]_vars

\* C18: create_cache returns True exactly when the table did not exist, leaves
\* the rows of an existing table as they are, and called again on the same
\* database (at any moment of a run) returns False and changes nothing.
\* fresh_start is that result, taken once in __init__: it never changes, and in
\* a run where it is True every row of the table was written in this run.
C18_CreateCache ==
    /\ [](/\ \A d \in DbBefore :
                /\ create_cache(d).ret = ~d.exists
                /\ create_cache(d).db.exists
                /\ d.exists => create_cache(d).db.rows = d.rows
                /\ create_cache(create_cache(d).db) = [db |-> create_cache(d).db, ret |-> FALSE]
          /\ create_cache(db) = [db |-> db, ret |-> FALSE]
          /\ fresh_start => \A id \in DOMAIN db.rows : fetched[id] # None)
    /\ [][fresh_start' = fresh_start]_vars

\* A process just constructed on a database that had the table, with rows:
\* create_cache returned False and kept them, and the first Loop is started.
C18_Witness ==
    /\ ~fresh_start
    /\ ncmd = 0
    /\ db.rows = [x \in Ids |-> IF x = "a" THEN 1 ELSE 0]
    /\ task[loop].st = "scheduled"

\* C19: no transition is absorbed silently.  With fresh_start false, every
\* step that changes the stored boolean of a watched id to the other value is
\* a cycle resuming from the send_info of that id with the new value: the
\* change has been notified.
C19_NoSilentTransition ==
    [][\A id \in Ids :
          (/\ ~fresh_start
           /\ in_list(watched_apps, id)
           /\ was_full(db, id) # None
           /\ was_full(db', id) # was_full(db, id))
              => \E k \in Loops :
                    /\ Resumes(k)
                    /\ task[k].st = "send_info"
                    /\ task[k].app_id = id
                    /\ task[k].is_full = was_full(db', id)]_vars

\* C20: polling never stops for good.  Again and again the newest Loop has a
\* task that is not done (started, asleep, in backoff or inside a cycle), from
\* which the timer begins the next cycle, whatever fetches, parses and sends
\* have failed and however often the interval was changed.
C20_PollingGoesOn == []<>(task[loop].st \notin Finished)

====
